---- MODULE Spec2Model ----
(***************************************************************************)
(* Model of the flute geometry scripts: lee_json.py, generar_piezas.py,    *)
(* navegador_flautas.py and visualizador_flauta_3D.py.                     *)
(*                                                                         *)
(* Numbers.                                                                *)
(*   - an axial position is an integer count of PosUnit = 1e-10 mm, so     *)
(*     that the sanitizer's offset 0.001 mm (EPS) and the interpolators'   *)
(*     tolerance 1e-9 mm (TOL) are both whole numbers of units; positions  *)
(*     and their differences are exact;                                    *)
(*   - a diameter is an integer count of mm, a radius (diameter / 2.0)     *)
(*     and every value derived from radii is a normalised fraction         *)
(*     <<n, d>>;                                                           *)
(*   - the operations of the interpolation formula are floating-point      *)
(*     operations: each result is rounded to Precision significant bits    *)
(*     (Fl); the arithmetic of the cutters is exact.                       *)
(* Python objects.  A profile point is a dict; lists hold references to    *)
(* dicts.  heap maps a reference (a positive integer) to the dict's        *)
(* fields, a list is a sequence of references.                             *)
(***************************************************************************)
EXTENDS Integers, Sequences, FiniteSets, TLC

VARIABLES
    heap,             \* reference -> [position, diameter]: the point dicts
    external_data,    \* the external record: [measurements |-> list of refs]
    internal_data,    \* the internal record: measurements and the hole fields
    new_measurements, \* the list returned by the last sanitizer call
    before,           \* history: heap as the caller supplied it
    first,            \* history: heap after the first sanitizer run
    runs,             \* history: number of sanitizer runs on this data
    y_pos,            \* the position of the last interpolate_radius call
    ret,              \* what the last interpolate_radius call ended in
    kernel_log,       \* the kernel requests of the last run, in call order
    outcome,          \* how the last assembly run ended
    final_cq_solid,   \* FluteAssemblerApp.final_cq_solid
    disk,             \* flute directory -> (file name -> the file it names)
    disk_before,      \* history: disk when scan_and_correct was called
    corrections_log,  \* FileCorrector.corrections_log
    scan              \* how the last scan_and_correct ended

vars == <<heap, external_data, internal_data, new_measurements, before, first,
          runs, y_pos, ret, kernel_log, outcome, final_cq_solid,
          disk, disk_before, corrections_log, scan>>

(* the variables of the file corrector *)
corrector == <<disk, disk_before, corrections_log, scan>>

-----------------------------------------------------------------------------
(* Bounds of the model *)

MaxLen == 3
MaxRuns == 2
MaxHoles == 2

(* the significand bits of the model's floating-point numbers (53 in Python) *)
Precision == 4

(* Program constants, in PosUnit = 1e-10 mm *)

EPS == 10000000
TOL == 10

(* Program constants, in mm *)

NavegadorMargin == 4
VisualizadorMargin == 2
GenerarMargin == 6
CylinderHeight == 80

(* path_pts[0][0] > 1e-6 *)
OnAxisTol == <<1, 1000000>>

(* np.tan(np.deg2rad(5.0)) = 0.08748..., kept as the fraction 7/80; the     *)
(* angles the visualizador's spin box is given: 0 and 5 degrees             *)
Tan5 == <<7, 80>>
TanAngles == {<<0, 1>>, Tan5}

-----------------------------------------------------------------------------
(* Exact fractions <<n, d>> with d > 0, in lowest terms *)

Abs(x) == IF x < 0 THEN -x ELSE x

RECURSIVE Gcd(_, _)
Gcd(a, b) == IF b = 0 THEN a ELSE Gcd(b, a % b)

Norm(n, d) ==
    LET s == IF d < 0 THEN -1 ELSE 1
        g == Gcd(Abs(n), Abs(d))
    IN  <<(s * n) \div g, (s * d) \div g>>

Rat(n) == <<n, 1>>
RAdd(a, b) == Norm(a[1] * b[2] + b[1] * a[2], a[2] * b[2])
RSub(a, b) == Norm(a[1] * b[2] - b[1] * a[2], a[2] * b[2])
RMul(a, b) == Norm(a[1] * b[1], a[2] * b[2])
RDiv(a, b) == Norm(a[1] * b[2], a[2] * b[1])
RLess(a, b) == a[1] * b[2] < b[1] * a[2]
RLeq(a, b) == a[1] * b[2] <= b[1] * a[2]

(* p['diameter'] / 2.0 *)
Radius(p) == Norm(p.diameter, 2)

(* Floating point.  The result of an arithmetic operation is rounded to the *)
(* nearest number m * 2^e with m < 2^Precision, ties to the even m.         *)
RECURSIVE Pow2(_)
Pow2(k) == IF k = 0 THEN 1 ELSE 2 * Pow2(k - 1)

(* the doublings of a that bring a / d up to 2^(Precision-1), and the       *)
(* doublings of d that bring a / d below 2^Precision                        *)
RECURSIVE ShiftUp(_, _)
ShiftUp(a, d) == IF a \div d >= Pow2(Precision - 1) THEN 0 ELSE 1 + ShiftUp(2 * a, d)
RECURSIVE ShiftDown(_, _)
ShiftDown(a, d) == IF a \div d < Pow2(Precision) THEN 0 ELSE 1 + ShiftDown(a, 2 * d)

Fl(q) ==
    IF q[1] = 0 THEN Rat(0)
    ELSE LET s == IF q[1] < 0 THEN -1 ELSE 1
             u == ShiftUp(Abs(q[1]), q[2])
             a == Abs(q[1]) * Pow2(u)
             v == ShiftDown(a, q[2])
             d == q[2] * Pow2(v)
             k == a \div d
             m == IF 2 * (a % d) > d \/ (2 * (a % d) = d /\ k % 2 = 1) THEN k + 1 ELSE k
         IN  Norm(s * m * Pow2(v), Pow2(u))

-----------------------------------------------------------------------------
(* Lists of point dicts *)

Refs(n) == [i \in 1..n |-> i]

(* the dicts a list of references holds, as values *)
Values(h, ms) == [i \in 1..Len(ms) |-> h[ms[i]]]

Positions(h, ms) == [i \in 1..Len(ms) |-> h[ms[i]].position]

NonDecreasing(s) == \A i \in 1..(Len(s) - 1) : s[i] <= s[i + 1]
StrictlyIncreasing(s) == \A i \in 1..(Len(s) - 1) : s[i] < s[i + 1]

RECURSIVE SeqsUpTo(_, _)
SeqsUpTo(S, n) ==
    IF n = 0 THEN {<<>>}
    ELSE LET shorter == SeqsUpTo(S, n - 1)
         IN  shorter \cup {Append(s, x) : s \in {t \in shorter : Len(t) = n - 1}, x \in S}

-----------------------------------------------------------------------------
(* lee_json.py: fix_profile_steps.  The loop visits the points in order and  *)
(* adds 0.001 to point['position'] of the dict itself when it equals the     *)
(* position measurements[i-1] holds at that moment; new_measurements         *)
(* collects the same dicts.                                                  *)

RECURSIVE FixLoop(_, _, _)
FixLoop(h, ms, i) ==
    IF i > Len(ms) THEN h
    ELSE LET point == ms[i]
             h2 == IF i > 1 /\ h[point].position = h[ms[i - 1]].position
                   THEN [h EXCEPT ![point].position = @ + EPS]
                   ELSE h
         IN  FixLoop(h2, ms, i + 1)

fix_profile_steps(h, ms) ==
    [heap |-> FixLoop(h, ms, 1), new_measurements |-> ms]

-----------------------------------------------------------------------------
(* Requests to the solid-modelling kernel (cadquery, trimesh).  A run's      *)
(* kernel_log holds one record per request, in call order; a solid is named  *)
(* by the index of the request that made it.  ok: the kernel answered (it    *)
(* raised otherwise); wt: the is_watertight the kernel reports of the mesh   *)
(* it made.                                                                  *)

Call(op) ==
    [op |-> op, poly |-> <<>>, template |-> <<>>, cone |-> <<>>, place |-> <<>>,
     a |-> 0, b |-> 0, hole |-> -1, ok |-> TRUE, wt |-> TRUE]

Revolve(polyline) == [Call("revolve") EXCEPT !.poly = polyline]
Cut(x, y, h) == [Call("cut") EXCEPT !.a = x, !.b = y, !.hole = h]

-----------------------------------------------------------------------------
(* generar_piezas.py: create_revolved_solid.  The same loop on the caller's  *)
(* dicts (fixed_points collects them), then the polyline (radius, position)  *)
(* of the fixed points, which is handed to trimesh.creation.revolve.         *)

RECURSIVE FixedPointsLoop(_, _, _)
FixedPointsLoop(h, profile_points, i) ==
    IF i > Len(profile_points) THEN h
    ELSE LET point == profile_points[i]
             h2 == IF i > 1 /\ h[point].position = h[profile_points[i - 1]].position
                   THEN [h EXCEPT ![point].position = @ + EPS]
                   ELSE h
         IN  FixedPointsLoop(h2, profile_points, i + 1)

(* [(p['diameter'] / 2, p['position']) for p in points] *)
Profile2d(h, points) ==
    [i \in 1..Len(points) |-> <<Radius(h[points[i]]), h[points[i]].position>>]

-----------------------------------------------------------------------------
(* interpolate_radius.  What a call ends in: a returned radius, or the       *)
(* IndexError of profile_points[-1] on an empty list.                        *)

Returned(r) == [kind |-> "return", value |-> r]
IndexError == [kind |-> "IndexError", value |-> Rat(0)]
ZeroDivisionError == [kind |-> "ZeroDivisionError", value |-> Rat(0)]
NoCall == [kind |-> "none", value |-> Rat(0)]

(* what BracketScan is not: the bracketing pair of the highest index *)
BracketScanHighest(y, pts, i) ==
    LET S == {j \in i..(Len(pts) - 1) : pts[j].position <= y /\ y <= pts[j + 1].position}
    IN  IF S = {} THEN 0 ELSE CHOOSE j \in S : \A k \in S : k <= j

(* for i in range(len(profile_points) - 1): if p[i] <= y <= p[i+1]: ...; break *)
(* the index of p1, or 0 when the loop ends with p1 = None                    *)
RECURSIVE BracketScan(_, _, _)
BracketScan(y, pts, i) ==
    IF i > Len(pts) - 1 THEN 0
    ELSE IF pts[i].position <= y /\ y <= pts[i + 1].position THEN i
    ELSE BracketScan(y, pts, i + 1)

(* what Lerp is not: the line through the pair taken the other way *)
LerpBackwards(y, p1, p2) ==
    Fl(RSub(Radius(p1),
            Fl(RMul(Fl(RSub(Radius(p2), Radius(p1))),
                    Fl(RDiv(Rat(y - p1.position), Rat(p2.position - p1.position)))))))

(* r1 + (r2 - r1) * ((y_pos - y1) / (y2 - y1)), each operation on radii     *)
(* rounded; the positions and their differences are exact                   *)
Lerp(y, p1, p2) ==
    Fl(RAdd(Radius(p1),
            Fl(RMul(Fl(RSub(Radius(p2), Radius(p1))),
                    Fl(RDiv(Rat(y - p1.position), Rat(p2.position - p1.position)))))))

(* the return of the last line: the division raises when y2 - y1 is 0 *)
Interpolated(y, p1, p2) ==
    IF p2.position - p1.position = 0 THEN ZeroDivisionError
    ELSE Returned(Lerp(y, p1, p2))

(* what ClampToTail is not: the first point's radius; a default for no points *)
ClampToHead(pts) ==
    IF Len(pts) = 0 THEN IndexError ELSE Returned(Radius(pts[1]))

ClampToTailOrZero(pts) ==
    IF Len(pts) = 0 THEN Returned(Rat(0)) ELSE Returned(Radius(pts[Len(pts)]))

(* if not p1: return profile_points[-1]['diameter'] / 2.0 *)
ClampToTail(pts) ==
    IF Len(pts) = 0 THEN IndexError ELSE Returned(Radius(pts[Len(pts)]))

(* generar_piezas.py: the degenerate pair is tested by (y2 - y1) == 0 *)
interpolate_radius_generar(y, pts) ==
    LET i == BracketScan(y, pts, 1)
    IN  IF i = 0
        THEN ClampToTail(pts)
        ELSE IF pts[i + 1].position - pts[i].position = 0
             THEN Returned(Radius(pts[i]))
             ELSE Interpolated(y, pts[i], pts[i + 1])

(* navegador_flautas.py and visualizador_flauta_3D.py (the same text): the   *)
(* degenerate pair is tested by abs(y2 - y1) < 1e-9                          *)
interpolate_radius(y, pts) ==
    LET i == BracketScan(y, pts, 1)
    IN  IF i = 0
        THEN ClampToTail(pts)
        ELSE IF Abs(pts[i + 1].position - pts[i].position) < TOL
             THEN Returned(Radius(pts[i]))
             ELSE Interpolated(y, pts[i], pts[i + 1])

-----------------------------------------------------------------------------
(* Inputs *)

Diameters == {10, 12}

Point(pos, d) == [position |-> pos, diameter |-> d]

ProfilesOver(P) == SeqsUpTo({Point(pos, d) : pos \in P, d \in Diameters}, MaxLen)


(* positions around one EPS for the sanitizer *)
SanPositions == {0, EPS \div 2, EPS, 2 * EPS}

(* positions around one TOL for the interpolators, and the queried y *)
InterpPositions == {0, TOL \div 2, TOL, EPS}
QueryPositions == InterpPositions \cup {-1, EPS \div 2, EPS + 1}

(* the diameters of the interpolated profiles: 0, and two whose radii 0.5   *)
(* and 12 differ by more than Precision bits hold                           *)
InterpDiameters == {0, 1, 24}
InterpProfiles ==
    SeqsUpTo({Point(pos, d) : pos \in InterpPositions, d \in InterpDiameters}, MaxLen)

NoPart == [measurements |-> <<>>]
NoSolid == [kind |-> "None", log |-> <<>>]
(* tan: the tangent of the conicity angle a run is given (0 where the        *)
(* program has no such parameter)                                           *)
NoRun == [app |-> "none", kind |-> "none", msg |-> "", tan |-> Rat(0)]

(* the variables an operation of another program leaves as constructed *)
IdleSanitizer ==
    /\ new_measurements = <<>>
    /\ first = <<>>
    /\ runs = 0
IdleInterpolator ==
    /\ y_pos = 0
    /\ ret = NoCall
NoScan == [kind |-> "none", error |-> ""]
IdleCorrector ==
    /\ disk = <<>>
    /\ disk_before = <<>>
    /\ corrections_log = <<>>
    /\ scan = NoScan
IdleAssembly ==
    /\ internal_data = NoPart
    /\ kernel_log = <<>>
    /\ outcome = NoRun
    /\ final_cq_solid = NoSolid

-----------------------------------------------------------------------------
(* The sanitizer alone: a caller holds external_data['measurements'] and     *)
(* calls fix_profile_steps (lee_json.py) or create_revolved_solid            *)
(* (generar_piezas.py) on it, up to MaxRuns times.                           *)

InitSanitizer ==
    /\ \E vs \in ProfilesOver(SanPositions) :
        /\ heap = vs
        /\ before = vs
        /\ external_data = [measurements |-> Refs(Len(vs))]
    /\ IdleSanitizer
    /\ IdleInterpolator
    /\ IdleCorrector
    /\ IdleAssembly

(* lee_json.py line 40:                                                       *)
(* external_data['measurements'] = fix_profile_steps(external_data[...])      *)
FixProfileSteps ==
    /\ runs < MaxRuns
    /\ LET r == fix_profile_steps(heap, external_data.measurements)
       IN  /\ heap' = r.heap
           /\ new_measurements' = r.new_measurements
           /\ external_data' = [external_data EXCEPT !.measurements = r.new_measurements]
           /\ first' = IF runs = 0 THEN r.heap ELSE first
    /\ runs' = runs + 1
    /\ UNCHANGED corrector
    /\ UNCHANGED <<internal_data, before, y_pos, ret, kernel_log, outcome, final_cq_solid>>

(* generar_piezas.py line 113: create_revolved_solid(external_data[...]);    *)
(* the kernel's revolve answers with a mesh or raises                        *)
CreateRevolvedSolid ==
    /\ runs < MaxRuns
    /\ LET h == FixedPointsLoop(heap, external_data.measurements, 1)
           fixed_points == external_data.measurements
       IN  /\ heap' = h
           /\ new_measurements' = fixed_points
           /\ first' = IF runs = 0 THEN h ELSE first
           /\ \E ok \in BOOLEAN :
               kernel_log' = <<[Revolve(Profile2d(h, fixed_points)) EXCEPT !.ok = ok]>>
    /\ runs' = runs + 1
    /\ UNCHANGED corrector
    /\ UNCHANGED <<external_data, internal_data, before, y_pos, ret, outcome, final_cq_solid>>

NextSanitizer == FixProfileSteps \/ CreateRevolvedSolid

SpecSanitizer == InitSanitizer /\ [][NextSanitizer]_vars

(* the caller-supplied profile sequence and the sanitizer's output, as values *)
Supplied == Refs(Len(before))
Sanitized == Values(heap, new_measurements)

-----------------------------------------------------------------------------
(* The interpolators alone: one profile, queried at any y.                   *)

InitInterpolator ==
    /\ \E vs \in InterpProfiles :
        /\ heap = vs
        /\ before = vs
        /\ external_data = [measurements |-> Refs(Len(vs))]
    /\ IdleSanitizer
    /\ IdleInterpolator
    /\ IdleCorrector
    /\ IdleAssembly

Profile == Values(heap, external_data.measurements)

(* generar_piezas.py: interpolate_radius(y_pos, profile_points) *)
InterpolateGenerar ==
    /\ \E y \in QueryPositions :
        /\ y_pos' = y
        /\ ret' = interpolate_radius_generar(y, Profile)
    /\ UNCHANGED corrector
    /\ UNCHANGED <<heap, external_data, internal_data, new_measurements, before, first,
                   runs, kernel_log, outcome, final_cq_solid>>

(* navegador_flautas.py, visualizador_flauta_3D.py: interpolate_radius(...) *)
InterpolateNavegador ==
    /\ \E y \in QueryPositions :
        /\ y_pos' = y
        /\ ret' = interpolate_radius(y, Profile)
    /\ UNCHANGED corrector
    /\ UNCHANGED <<heap, external_data, internal_data, new_measurements, before, first,
                   runs, kernel_log, outcome, final_cq_solid>>

NextInterpolator == InterpolateGenerar \/ InterpolateNavegador

SpecInterpolator == InitInterpolator /\ [][NextInterpolator]_vars

-----------------------------------------------------------------------------
(* Claims about the sanitizer, under SpecSanitizer *)

(* C1: for every non-decreasing input profile (runs of equal positions of   *)
(* any length included) the sanitizer's output has strictly increasing      *)
(* positions.                                                               *)
C1_SanitizedStrictlyIncreasing ==
    (runs >= 1 /\ NonDecreasing(Positions(before, Supplied)))
        => StrictlyIncreasing(Positions(heap, new_measurements))

(* C2: after the sanitizer returns, every point of the caller-supplied      *)
(* profile still has the position and diameter it had before the call.      *)
C2_CallerProfileUntouched ==
    runs >= 1 => Values(heap, Supplied) = before

(* C3: the output of one sanitizer run has the input's length and order,    *)
(* every diameter is unchanged, a point whose original position differs     *)
(* from its predecessor's original position keeps its position, and every   *)
(* other point moves by at most one EPS.                                    *)
C3_OnlyCollidingPointsMove ==
    runs = 1 =>
        /\ new_measurements = Supplied
        /\ \A i \in 1..Len(before) :
            /\ Sanitized[i].diameter = before[i].diameter
            /\ (i = 1 \/ before[i].position # before[i - 1].position)
                   => Sanitized[i].position = before[i].position
            /\ Abs(Sanitized[i].position - before[i].position) <= EPS

(* C4: a second sanitizer run changes nothing the first run produced, and   *)
(* after any number of runs each originally colliding point is shifted by   *)
(* exactly one EPS.                                                         *)
C4_IdempotentOneEpsilon ==
    /\ runs >= 2 => heap = first
    /\ runs >= 1 =>
        \A i \in 2..Len(before) :
            before[i].position = before[i - 1].position
                => heap[i].position = before[i].position + EPS

(* What does hold of the sanitizer on every input: a run after the first    *)
(* changes nothing, no point moves by more than one EPS however many runs,  *)
(* no two adjacent output positions are equal, diameters are kept.          *)
SanitizerFacts ==
    /\ runs >= 2 => heap = first
    /\ \A i \in 1..Len(before) :
        /\ heap[i].position \in {before[i].position, before[i].position + EPS}
        /\ heap[i].diameter = before[i].diameter
    /\ runs >= 1 => \A i \in 2..Len(before) : heap[i].position # heap[i - 1].position

-----------------------------------------------------------------------------
(* Claims about the interpolators, under SpecInterpolator *)

Called == ret.kind # "none"
Last(pts) == pts[Len(pts)]
NoPairBrackets(y, pts) ==
    \A i \in 1..(Len(pts) - 1) : ~(pts[i].position <= y /\ y <= pts[i + 1].position)

(* C5: on a profile of at least two points with strictly increasing         *)
(* positions, a query at a sample's position returns exactly that sample's  *)
(* radius.                                                                  *)
C5_PassesThroughSamples ==
    (Called /\ Len(Profile) >= 2 /\ StrictlyIncreasing(Positions(heap, external_data.measurements)))
        => \A i \in 1..Len(Profile) :
               Profile[i].position = y_pos => ret = Returned(Radius(Profile[i]))

(* C6: on a profile of at least two points, a query at a y that no adjacent *)
(* pair brackets returns the radius of the last point and raises nothing.   *)
C6_ClampToTail ==
    (Called /\ Len(Profile) >= 2 /\ NoPairBrackets(y_pos, Profile))
        => ret = Returned(Radius(Last(Profile)))

C6_Witness ==
    /\ Called
    /\ Len(Profile) >= 2
    /\ y_pos < Profile[1].position
    /\ StrictlyIncreasing(Positions(heap, external_data.measurements))
    /\ Radius(Profile[1]) # Radius(Last(Profile))
    /\ ret = Returned(Radius(Last(Profile)))

(* C7 as stated: on an empty or single-point profile every query returns    *)
(* an ordinary value, the last point's radius, and never ends in an error.  *)
C7_ShortProfileNeverErrors ==
    (Called /\ Len(Profile) <= 1)
        => /\ ret.kind = "return"
           /\ Len(Profile) = 1 => ret.value = Radius(Last(Profile))

(* C7 amended: on a single-point profile every query returns that point's   *)
(* radius; on an empty profile every query ends in IndexError.              *)
C7_SinglePointOrIndexError ==
    Called =>
        /\ Len(Profile) = 1 => ret = Returned(Radius(Profile[1]))
        /\ Len(Profile) = 0 => ret = IndexError

C7_Witness ==
    /\ Called
    /\ Len(Profile) = 0
    /\ ret.kind = "IndexError"

-----------------------------------------------------------------------------
(* The assembly programs.  A part is loaded (external_data, internal_data   *)
(* over heap) and one of the three programs assembles it once:              *)
(*   navegador_flautas.py       FluteAssembler.assemble and its caller      *)
(*   visualizador_flauta_3D.py  FluteAssemblerApp.assemble_model            *)
(*   lee_json.py                assemble_final_model                        *)
(* The kernel may reject any request; which one it rejects is the action's  *)
(* nondeterministic input.                                                  *)

IntDiameters == {8, 12}
HoleDiameters == {5}
HolePositions == {0, EPS}

ExternalProfiles ==
    {<<>>, <<Point(0, 10), Point(0, 12), Point(2 * EPS, 12)>>}
        \cup {<<Point(0, d1), Point(2 * EPS, d2)>> : d1 \in Diameters, d2 \in Diameters}
InternalProfiles ==
    {<<>>} \cup {<<Point(0, d1), Point(2 * EPS, d2)>> : d1 \in IntDiameters, d2 \in IntDiameters}

(* the references of the second list follow those of the first in heap *)
RefsFrom(k, n) == [i \in 1..n |-> k + i]

(* A part record is the dict json.load returns: keys holds the names of the  *)
(* fields the file has; d['k'] raises KeyError when k is not among them and  *)
(* d.get('k', 0) answers 0.                                                  *)
HoleFields == {"Number of holes", "Holes position", "Holes diameter"}

(* self.internal_data.get("Number of holes", 0) *)
NumberOfHoles(idt) ==
    IF "Number of holes" \in idt.keys THEN idt.number_of_holes ELSE 0

(* what reading hole i (0-based) of the record ends in: "" when both         *)
(* internal_data["Holes position"][i] and internal_data["Holes diameter"][i] *)
(* answer, the exception of the first that does not otherwise                *)
HoleError(idt, i) ==
    IF "Holes position" \notin idt.keys THEN "KeyError"
    ELSE IF i >= Len(idt.holes_position) THEN "IndexError"
    ELSE IF "Holes diameter" \notin idt.keys THEN "KeyError"
    ELSE IF i >= Len(idt.holes_diameter) THEN "IndexError"
    ELSE ""

(* the number of holes the loop for i in range(n) reads before it raises *)
RECURSIVE GoodHoles(_, _)
GoodHoles(idt, i) ==
    IF i >= NumberOfHoles(idt) \/ HoleError(idt, i) # "" THEN i
    ELSE GoodHoles(idt, i + 1)

(* the files a part is loaded from: the well-formed record, or one that     *)
(* lacks a field or has a list shorter than 'Number of holes'               *)
Defects ==
    {"none", "no hole fields", "short positions", "short diameters",
     "no internal measurements", "no external measurements"}

InternalRecord(ms, n, hp, hd, defect) ==
    [keys |-> IF defect = "no hole fields" THEN {"measurements"}
              ELSE IF defect = "no internal measurements" THEN HoleFields
              ELSE {"measurements"} \cup HoleFields,
     measurements |-> IF defect = "no internal measurements" THEN <<>> ELSE ms,
     number_of_holes |-> IF defect = "no hole fields" THEN 0 ELSE n,
     holes_position |-> IF defect = "no hole fields" THEN <<>>
                        ELSE IF defect = "short positions" /\ n > 0 THEN SubSeq(hp, 1, n - 1)
                        ELSE hp,
     holes_diameter |-> IF defect = "no hole fields" THEN <<>>
                        ELSE IF defect = "short diameters" /\ n > 0 THEN SubSeq(hd, 1, n - 1)
                        ELSE hd]

ExternalRecord(ms, defect) ==
    [keys |-> IF defect = "no external measurements" THEN {} ELSE {"measurements"},
     measurements |-> IF defect = "no external measurements" THEN <<>> ELSE ms]

Init ==
    /\ \E ext \in ExternalProfiles, int \in InternalProfiles, n \in 0..MaxHoles,
          defect \in Defects :
       \E hp \in [1..n -> HolePositions], hd \in [1..n -> HoleDiameters] :
        /\ heap = ext \o int
        /\ before = ext \o int
        /\ external_data = ExternalRecord(Refs(Len(ext)), defect)
        /\ internal_data = InternalRecord(RefsFrom(Len(ext), Len(int)), n, hp, hd, defect)
    /\ IdleSanitizer
    /\ IdleInterpolator
    /\ IdleCorrector
    /\ kernel_log = <<>>
    /\ outcome = NoRun
    /\ final_cq_solid = NoSolid

(* a Python exception that ends a run: the last entry of a run's trace *)
PyErrors == {"KeyError", "IndexError"}
Raise(name) == [Call(name) EXCEPT !.ok = FALSE]

(* the trace of a run whose request number f the kernel rejects (0: none) *)
Truncate(plan, f) ==
    IF f = 0 \/ f > Len(plan) THEN plan
    ELSE SubSeq(plan, 1, f - 1) \o <<[plan[f] EXCEPT !.ok = FALSE]>>

Rejected(log) == {i \in 1..Len(log) : ~log[i].ok}

(* the kernel requests of a trace, and the exception that ended it ("") *)
KernelLog(trace) ==
    IF trace # <<>> /\ trace[Len(trace)].op \in PyErrors
    THEN SubSeq(trace, 1, Len(trace) - 1) ELSE trace
Raised(trace) ==
    IF trace # <<>> /\ trace[Len(trace)].op \in PyErrors
    THEN trace[Len(trace)].op ELSE ""

(* navegador 87-90, visualizador 33-37: the polyline of a non-empty profile, *)
(* closed onto the axis at both ends                                         *)
CqPathPts(h, profile_points) ==
    LET path_pts == Profile2d(h, profile_points)
        head == IF RLess(OnAxisTol, path_pts[1][1])
                THEN <<<<Rat(0), path_pts[1][2]>>>> ELSE <<>>
        body == head \o path_pts
        tail == IF RLess(OnAxisTol, body[Len(body)][1])
                THEN <<<<Rat(0), body[Len(body)][2]>>>> ELSE <<>>
    IN  body \o tail

(* Placement.  A point of a cutter is [mm, pos]: its coordinates (x, y, z)  *)
(* are mm[k] millimetres plus pos[k] PosUnit.  A placement is the sequence  *)
(* of the transforms applied to the template, first to last.                *)
ZeroMm == <<Rat(0), Rat(0), Rat(0)>>
ZeroPos == <<0, 0, 0>>
Translate(mm, pos) == [kind |-> "translate", mm |-> mm, pos |-> pos, axis |-> "", quarter |-> 0]
(* a right-handed rotation about the axis through the origin by quarter * 90 degrees *)
Rotate(axis, quarter) == [kind |-> "rotate", mm |-> ZeroMm, pos |-> ZeroPos, axis |-> axis, quarter |-> quarter]

RNeg(a) == Norm(-a[1], a[2])

(* what CqCutter is not: the cone turned the other way, by +90 degrees *)
CqCutterTurnedOver(h, ed, idt, i, tan, margin) ==
    LET z_pos == idt.holes_position[i + 1]
        d_outer_hole == idt.holes_diameter[i + 1]
        r_body_ext == interpolate_radius(z_pos, Values(h, ed.measurements)).value
        r_body_int == interpolate_radius(z_pos, Values(h, idt.measurements)).value
        wall_thickness == RSub(r_body_ext, r_body_int)
        cutter_height == RAdd(wall_thickness, Rat(margin))
        r_outer_hole == Norm(d_outer_hole, 2)
        change_in_radius == RMul(wall_thickness, tan)
        r_inner_hole == RAdd(r_outer_hole, change_in_radius)
        x_target == RDiv(RAdd(r_body_ext, r_body_int), Rat(2))
    IN  [Call("makeCone") EXCEPT
            !.cone = <<r_outer_hole, r_inner_hole, cutter_height>>,
            !.place = <<Translate(<<Rat(0), Rat(0), RNeg(RDiv(cutter_height, Rat(2)))>>, ZeroPos),
                        Rotate("Y", 1),
                        Translate(<<x_target, Rat(0), Rat(0)>>, <<0, 0, z_pos>>)>>,
            !.hole = i]

(* navegador 102-118, visualizador 142-162: the cutter of hole i (0-based), *)
(* a makeCone request and its placement                                     *)
CqCutter(h, ed, idt, i, tan, margin) ==
    LET z_pos == idt.holes_position[i + 1]
        d_outer_hole == idt.holes_diameter[i + 1]
        r_body_ext == interpolate_radius(z_pos, Values(h, ed.measurements)).value
        r_body_int == interpolate_radius(z_pos, Values(h, idt.measurements)).value
        wall_thickness == RSub(r_body_ext, r_body_int)
        cutter_height == RAdd(wall_thickness, Rat(margin))
        r_outer_hole == Norm(d_outer_hole, 2)
        change_in_radius == RMul(wall_thickness, tan)
        r_inner_hole == RAdd(r_outer_hole, change_in_radius)
        x_target == RDiv(RAdd(r_body_ext, r_body_int), Rat(2))
    IN  [Call("makeCone") EXCEPT
            !.cone = <<r_outer_hole, r_inner_hole, cutter_height>>,
            !.place = <<Translate(<<Rat(0), Rat(0), RNeg(RDiv(cutter_height, Rat(2)))>>, ZeroPos),
                        Rotate("Y", -1),
                        Translate(<<x_target, Rat(0), Rat(0)>>, <<0, 0, z_pos>>)>>,
            !.hole = i]

(* what CqPlan is not: every cutter subtracted from the external solid, the *)
(* body subtraction last                                                    *)
CqPlanOnBlank(h, ed, idt, tan, margin) ==
    LET n == NumberOfHoles(idt)
        g == GoodHoles(idt, 0)
        cutters == [i \in 1..g |-> CqCutter(h, ed, idt, i - 1, tan, margin)]
        cuts == [i \in 1..n |-> Cut(IF i = 1 THEN 1 ELSE 1 + n + i, 2 + i, i - 1)]
    IN  <<Revolve(CqPathPts(h, ed.measurements)), Revolve(CqPathPts(h, idt.measurements))>>
            \o cutters
            \o (IF g < n THEN <<Raise(HoleError(idt, g))>> ELSE cuts \o <<Cut(2 + 2 * n, 2, -1)>>)

(* the requests of a cadquery assembly of two non-empty profiles, in call   *)
(* order, when the kernel answers them all: the two revolves (solids 1, 2), *)
(* the cutter of each hole (solid 2 + i), external.cut(internal), then      *)
(* result.cut(cutter) for each cutter in turn.  The cutter loop raises at   *)
(* the first hole the record does not hold, and nothing is cut then.        *)
CqPlan(h, ed, idt, tan, margin) ==
    LET n == NumberOfHoles(idt)
        g == GoodHoles(idt, 0)
        cutters == [i \in 1..g |-> CqCutter(h, ed, idt, i - 1, tan, margin)]
        cuts == [i \in 1..n |-> Cut(2 + n + i, 2 + i, i - 1)]
    IN  <<Revolve(CqPathPts(h, ed.measurements)), Revolve(CqPathPts(h, idt.measurements))>>
            \o cutters
            \o (IF g < n THEN <<Raise(HoleError(idt, g))>> ELSE <<Cut(1, 2, -1)>> \o cuts)

(* navegador 95-97: the two solids; a profile that is an empty list gives   *)
(* None without a request, and assemble returns None                        *)
NavegadorPlan(h, ed, idt) ==
    IF "measurements" \notin ed.keys THEN <<Raise("KeyError")>>
    ELSE LET ext == ed.measurements
             int == idt.measurements
             rev_ext == IF ext # <<>> THEN <<Revolve(CqPathPts(h, ext))>> ELSE <<>>
             rev_int == IF int # <<>> THEN <<Revolve(CqPathPts(h, int))>> ELSE <<>>
         IN  IF "measurements" \notin idt.keys THEN rev_ext \o <<Raise("KeyError")>>
             ELSE IF ext = <<>> \/ int = <<>> THEN rev_ext \o rev_int
             ELSE CqPlan(h, ed, idt, Tan5, NavegadorMargin)

MaxCalls == 3 + 2 * MaxHoles

(* navegador_flautas.py 242-250 with FluteAssembler.assemble (93-124): an   *)
(* empty profile gives no solid and assemble returns None; an exception of  *)
(* the kernel leaves assemble and the caller prints it                      *)
AssembleNavegador ==
    /\ outcome = NoRun
    /\ \E fail_at \in 0..MaxCalls :
        LET both == /\ "measurements" \in external_data.keys
                    /\ "measurements" \in internal_data.keys
                    /\ external_data.measurements # <<>>
                    /\ internal_data.measurements # <<>>
        IN  \E trace \in {Truncate(NavegadorPlan(heap, external_data, internal_data), fail_at)} :
            /\ kernel_log' = KernelLog(trace)
            /\ outcome' = [app |-> "navegador",
                           kind |-> IF Rejected(trace) # {} THEN "message"
                                    ELSE IF both THEN "success" ELSE "None",
                           msg |-> IF Rejected(trace) # {} THEN "ERROR al procesar" ELSE "",
                           tan |-> Tan5]
    /\ UNCHANGED corrector
    /\ UNCHANGED <<heap, external_data, internal_data, new_measurements, before, first,
                   runs, y_pos, ret, final_cq_solid>>

(* visualizador 131, 190-210: plot_2d reads both 'measurements' and, for     *)
(* every declared hole, the hole lists and both interpolated radii, before  *)
(* any solid is asked for; the exception it ends in ("": none)              *)
Plot2dError(ed, idt) ==
    IF "measurements" \notin idt.keys \/ "measurements" \notin ed.keys THEN "KeyError"
    ELSE IF NumberOfHoles(idt) = 0 THEN ""
    ELSE IF HoleError(idt, 0) # "" THEN HoleError(idt, 0)
    ELSE IF ed.measurements = <<>> \/ idt.measurements = <<>> THEN "IndexError"
    ELSE IF GoodHoles(idt, 0) < NumberOfHoles(idt) THEN HoleError(idt, GoodHoles(idt, 0))
    ELSE ""

(* visualizador_flauta_3D.py 131-179, assemble_model after the files are   *)
(* read.  plot_2d is outside any try.  create_cq_solid_from_profile turns   *)
(* an empty profile or a kernel exception into None (both profiles are      *)
(* always tried); the cutter loop is outside any try; the cuts are inside   *)
(* one; a finished result is stored in final_cq_solid and exported when the *)
(* user answers Yes.                                                        *)
AssembleModel ==
    /\ outcome = NoRun
    /\ \E ext_ok \in BOOLEAN, int_ok \in BOOLEAN, later \in 0..(MaxCalls - 1),
          tan \in TanAngles, save \in BOOLEAN :
        LET ext == external_data.measurements
            int == internal_data.measurements
            plot_error == Plot2dError(external_data, internal_data)
            revs == (IF ext # <<>>
                     THEN <<[Revolve(CqPathPts(heap, ext)) EXCEPT !.ok = ext_ok]>> ELSE <<>>)
                    \o (IF int # <<>>
                        THEN <<[Revolve(CqPathPts(heap, int)) EXCEPT !.ok = int_ok]>> ELSE <<>>)
            solids == ext # <<>> /\ int # <<>> /\ ext_ok /\ int_ok
            n == NumberOfHoles(internal_data)
        IN  \E log \in {IF plot_error # "" THEN <<>>
                        ELSE IF solids
                        THEN Truncate(CqPlan(heap, external_data, internal_data, tan,
                                             VisualizadorMargin)
                                          \o (IF save THEN <<Call("export")>> ELSE <<>>),
                                      IF later = 0 THEN 0 ELSE 2 + later)
                        ELSE revs} :
            LET bad == Rejected(log)
                cut_done == \A i \in 1..Len(log) :
                                log[i].op \in {"revolve", "makeCone", "cut"} => log[i].ok
            IN
            /\ kernel_log' = log
            /\ outcome' =
                 [app |-> "visualizador",
                  kind |-> IF plot_error # "" THEN "raised"
                           ELSE IF ~solids THEN "message"
                           ELSE IF bad = {} THEN "success"
                           ELSE IF \E i \in bad : log[i].op = "cut" THEN "message"
                           ELSE "raised",
                  msg |-> IF plot_error # "" THEN plot_error
                          ELSE IF ~solids THEN "Fallo al crear solidos base."
                          ELSE IF \E i \in bad : log[i].op = "cut"
                               THEN "La operacion booleana fallo."
                          ELSE "",
                  tan |-> tan]
            /\ final_cq_solid' =
                 IF plot_error = "" /\ solids /\ cut_done /\ Len(log) >= 3 + 2 * n
                 THEN [kind |-> "Solid", log |-> SubSeq(log, 1, 3 + 2 * n)]
                 ELSE final_cq_solid
    /\ UNCHANGED corrector
    /\ UNCHANGED <<heap, external_data, internal_data, new_measurements, before, first,
                   runs, y_pos, ret>>

(* lee_json.py 32-73, assemble_final_model.  Both profiles are sanitized in *)
(* place; trimesh revolves the bare polylines (an empty one is rejected);   *)
(* inside the try a mesh that is not watertight is processed once and the   *)
(* difference is requested; then the first hole is cut with a cylinder and  *)
(* the result exported.  wt[1], wt[2]: is_watertight of the two revolved    *)
(* meshes; wt[3], wt[4]: of each after its process().                       *)
Watertightness ==
    {w \in [1..4 -> BOOLEAN] : (w[1] => w[3]) /\ (w[2] => w[4])}

AssembleFinalModel ==
    /\ outcome = NoRun
    /\ \E fail_at \in 0..8, wt \in Watertightness :
        LET ext == external_data.measurements
            int == internal_data.measurements
            has_ext == "measurements" \in external_data.keys
            has_int == "measurements" \in internal_data.keys
            h == IF ~has_ext THEN heap
                 ELSE IF ~has_int THEN FixLoop(heap, ext, 1)
                 ELSE FixLoop(FixLoop(heap, ext, 1), int, 1)
            revs == <<[Revolve(Profile2d(h, ext)) EXCEPT !.wt = wt[1]],
                      [Revolve(Profile2d(h, int)) EXCEPT !.wt = wt[2]]>>
            proc_ext == IF ~wt[1]
                        THEN <<[Call("process") EXCEPT !.a = 1, !.wt = wt[3]]>> ELSE <<>>
            proc_int == IF ~wt[2]
                        THEN <<[Call("process") EXCEPT !.a = 2, !.wt = wt[4]]>> ELSE <<>>
            external_solid_tm == IF ~wt[1] THEN 3 ELSE 1
            internal_solid_tm == IF ~wt[2] THEN 3 + Len(proc_ext) ELSE 2
            hollow_body_tm == 3 + Len(proc_ext) + Len(proc_int)
            body == revs \o proc_ext \o proc_int
                        \o <<Cut(external_solid_tm, internal_solid_tm, -1)>>
            hole == IF HoleError(internal_data, 0) = ""
                    THEN <<[Call("cylinder") EXCEPT
                               !.cone = <<Norm(internal_data.holes_diameter[1], 2),
                                          Norm(internal_data.holes_diameter[1], 2),
                                          Rat(CylinderHeight)>>,
                               !.place = <<Rotate("X", 1),
                                           Translate(ZeroMm,
                                                     <<0, 0, internal_data.holes_position[1]>>)>>,
                               !.hole = 0],
                           Cut(hollow_body_tm, hollow_body_tm + 1, 0),
                           Call("export")>>
                    ELSE <<Raise(HoleError(internal_data, 0))>>
            plan == IF has_ext /\ has_int THEN body \o hole ELSE <<Raise("KeyError")>>
            empty == IF ~has_ext \/ ~has_int THEN 0
                     ELSE IF ext = <<>> THEN 1 ELSE IF int = <<>> THEN 2 ELSE 0
            f == IF empty # 0 /\ (fail_at = 0 \/ fail_at > empty) THEN empty ELSE fail_at
        IN  \E trace \in {Truncate(plan, f)} :
            LET bad == Rejected(trace)
                in_try == \E i \in bad : i > 2 /\ i <= hollow_body_tm
            IN
            /\ heap' = h
            /\ kernel_log' = KernelLog(trace)
            /\ outcome' =
                 [app |-> "lee_json",
                  kind |-> IF in_try THEN "message"
                           ELSE IF bad # {} THEN "raised"
                           ELSE "success",
                  msg |-> IF in_try THEN "ERROR: La resta final fallo"
                          ELSE Raised(trace),
                  tan |-> Rat(0)]
    /\ UNCHANGED corrector
    /\ UNCHANGED <<external_data, internal_data, new_measurements, before, first,
                   runs, y_pos, ret, final_cq_solid>>

(* generar_piezas.py 118-142: the cutter of hole i (0-based), the template  *)
(* profile handed to trimesh.creation.revolve and its transform             *)
(* translation @ rotation                                                   *)
TemplateCutter(h, ed, idt, i) ==
    LET y_pos_hole == idt.holes_position[i + 1]
        d_outer_hole == idt.holes_diameter[i + 1]
        d_inner_hole == d_outer_hole + 1
        r_body_ext == interpolate_radius_generar(y_pos_hole, Values(h, ed.measurements)).value
        r_body_int == interpolate_radius_generar(y_pos_hole, Values(h, idt.measurements)).value
        cutter_height == RAdd(RSub(r_body_ext, r_body_int), Rat(GenerarMargin))
        half == RDiv(cutter_height, Rat(2))
        x_target_pos == RDiv(RAdd(r_body_ext, r_body_int), Rat(2))
    IN  [Call("revolve") EXCEPT
            !.template = <<<<Rat(0), RNeg(half)>>, <<Norm(d_outer_hole, 2), RNeg(half)>>,
                           <<Norm(d_inner_hole, 2), half>>, <<Rat(0), half>>>>,
            !.place = <<Rotate("Y", -1),
                        Translate(<<x_target_pos, Rat(0), Rat(0)>>, <<0, y_pos_hole, 0>>)>>,
            !.hole = i]

(* generar_piezas.py 112-155, generate_and_visualize after the files are    *)
(* read: create_revolved_solid on each profile (the dicts are shifted in    *)
(* place; trimesh rejects an empty polyline), then one cutter per declared  *)
(* hole; nothing is subtracted and no exception is caught.                  *)
GenerateAndVisualize ==
    /\ outcome = NoRun
    /\ \E fail_at \in 0..(2 + MaxHoles) :
        LET ext == external_data.measurements
            int == internal_data.measurements
            has_ext == "measurements" \in external_data.keys
            has_int == "measurements" \in internal_data.keys
            empty == IF ~has_ext THEN 0
                     ELSE IF ext = <<>> THEN 1
                     ELSE IF has_int /\ int = <<>> THEN 2 ELSE 0
            f == IF empty # 0 /\ (fail_at = 0 \/ fail_at > empty) THEN empty ELSE fail_at
            h == IF ~has_ext THEN heap
                 ELSE IF ~has_int \/ f = 1 THEN FixedPointsLoop(heap, ext, 1)
                 ELSE FixedPointsLoop(FixedPointsLoop(heap, ext, 1), int, 1)
            g == GoodHoles(internal_data, 0)
            cutters == [i \in 1..g |-> TemplateCutter(h, external_data, internal_data, i - 1)]
            plan == IF ~has_ext THEN <<Raise("KeyError")>>
                    ELSE IF ~has_int THEN <<Revolve(Profile2d(h, ext)), Raise("KeyError")>>
                    ELSE <<Revolve(Profile2d(h, ext)), Revolve(Profile2d(h, int))>>
                         \o (IF ext = <<>> \/ int = <<>> THEN <<>> ELSE cutters)
                         \o (IF g < NumberOfHoles(internal_data)
                             THEN <<Raise(HoleError(internal_data, g))>> ELSE <<>>)
        IN  \E trace \in {Truncate(plan, f)} :
            /\ heap' = h
            /\ kernel_log' = KernelLog(trace)
            /\ outcome' = [app |-> "generar",
                           kind |-> IF Rejected(trace) # {} THEN "raised" ELSE "success",
                           msg |-> Raised(trace),
                           tan |-> Rat(0)]
    /\ UNCHANGED corrector
    /\ UNCHANGED <<external_data, internal_data, new_measurements, before, first,
                   runs, y_pos, ret, final_cq_solid>>

Next == AssembleNavegador \/ AssembleModel \/ AssembleFinalModel \/ GenerateAndVisualize

Spec == Init /\ [][Next]_vars

-----------------------------------------------------------------------------
(* Claims about the assembly runs, under Spec *)

Ran == outcome.kind # "none"
Requests(op) == {i \in 1..Len(kernel_log) : kernel_log[i].op = op}
ExternalProfile == Values(heap, external_data.measurements)
InternalProfile == Values(heap, internal_data.measurements)

(* the stage and the hole index a message of the programs names: "Fallo al  *)
(* crear solidos base" the revolutions, "La resta final fallo" the body     *)
(* subtraction, "La operacion booleana fallo" some subtraction; the text of *)
(* a kernel exception names neither, and no message names a hole.           *)
MsgStage(msg) ==
    CASE msg = "Fallo al crear solidos base." -> "revolve"
      [] msg = "ERROR: La resta final fallo" -> "boolean-body"
      [] msg = "La operacion booleana fallo." -> "boolean"
      [] OTHER -> ""
MsgHole(msg) == -1

(* the holes (0-based) where the interpolated internal radius is not below  *)
(* the external one                                                         *)
NonPositiveWall ==
    {i \in 0..(internal_data.number_of_holes - 1) :
        RLeq(interpolate_radius(internal_data.holes_position[i + 1], ExternalProfile).value,
             interpolate_radius(internal_data.holes_position[i + 1], InternalProfile).value)}

(* C8: when the kernel answers every request of a cadquery assembly and     *)
(* some hole has a non-positive wall thickness, the run ends as a failure   *)
(* of stage 'cutter' naming that hole, no cutter is built for that hole,    *)
(* nothing is subtracted with it, and no solid is the run's result.         *)
C8_WallViolationAborts ==
    (/\ outcome.app \in {"navegador", "visualizador"}
     /\ ExternalProfile # <<>> /\ InternalProfile # <<>>
     /\ Rejected(kernel_log) = {}
     /\ NonPositiveWall # {})
        => \E i \in NonPositiveWall :
            /\ outcome.kind \in {"message", "raised"}
            /\ MsgStage(outcome.msg) = "cutter"
            /\ MsgHole(outcome.msg) = i
            /\ \A j \in Requests("makeCone") \cup Requests("cut") : kernel_log[j].hole # i
            /\ final_cq_solid = NoSolid

(* the stage of a rejected request *)
StageOf(e) ==
    IF e.op = "revolve" THEN "revolve"
    ELSE IF e.hole = -1 THEN "boolean-body" ELSE "boolean-cutter"

(* C9: when the kernel rejects a revolve, the body subtraction or the       *)
(* subtraction of cutter i in a run of the visualizador or of lee_json, the *)
(* run ends as a failure carrying that stage (and the hole index), no       *)
(* request of a later stage follows, and no solid is returned, stored or    *)
(* exported as the result.                                                  *)
C9_KernelFailureAborts ==
    outcome.app \in {"visualizador", "lee_json"} =>
        \A i \in Rejected(kernel_log) :
            kernel_log[i].op \in {"revolve", "cut"} =>
                /\ outcome.kind \in {"message", "raised"}
                /\ MsgStage(outcome.msg) = StageOf(kernel_log[i])
                /\ MsgHole(outcome.msg) = kernel_log[i].hole
                /\ \A j \in (i + 1)..Len(kernel_log) :
                       StageOf(kernel_log[j]) = StageOf(kernel_log[i])
                /\ Requests("export") = {}
                /\ final_cq_solid = NoSolid

(* C10: in lee_json's run each revolved mesh reported non-watertight gets   *)
(* exactly one process() before the body subtraction, and when a mesh is    *)
(* still non-watertight after it the run ends as a 'boolean-body' failure   *)
(* without the subtraction being requested.                                 *)
C10_RepairOnceOrAbort ==
    (outcome.app = "lee_json" /\ Len(kernel_log) >= 2
        /\ kernel_log[1].ok /\ kernel_log[2].ok)
        => /\ \A s \in {1, 2} :
                /\ Cardinality({j \in Requests("process") : kernel_log[j].a = s}) <= 1
                /\ \A c \in Requests("cut") :
                       kernel_log[c].hole = -1 /\ ~kernel_log[s].wt
                           => \E j \in Requests("process") : j < c /\ kernel_log[j].a = s
           /\ (\E j \in Requests("process") : kernel_log[j].ok /\ ~kernel_log[j].wt)
                => /\ \A c \in Requests("cut") : kernel_log[c].hole # -1
                   /\ outcome.kind = "message"
                   /\ MsgStage(outcome.msg) = "boolean-body"

(* What does hold of every run: a rejected request is the last one (but for *)
(* the visualizador's two revolves, which are both tried); a run with a     *)
(* rejected request is no success, exports nothing and stores nothing; a    *)
(* mesh is processed at most once, and only when reported non-watertight.   *)
AssemblyFacts ==
    Ran =>
        /\ \A i \in Rejected(kernel_log) :
               /\ i = Len(kernel_log) \/ (outcome.app = "visualizador" /\ i = 1 /\ Len(kernel_log) = 2)
               /\ outcome.kind # "success"
               /\ kernel_log[i].op \in {"revolve", "cut", "makeCone", "process"}
                      => final_cq_solid = NoSolid
        /\ \A j \in Requests("process") :
               /\ ~kernel_log[kernel_log[j].a].wt
               /\ \A k \in Requests("process") : kernel_log[k].a = kernel_log[j].a => k = j

-----------------------------------------------------------------------------
(* Claims about the parts and the cutters, under Spec *)

(* both profiles are there and hold points *)
BothProfiles ==
    /\ "measurements" \in external_data.keys
    /\ "measurements" \in internal_data.keys
    /\ external_data.measurements # <<>>
    /\ internal_data.measurements # <<>>

(* the requests that build a cutter: makeCone, cylinder, or the revolve of  *)
(* a template profile                                                       *)
Cutters ==
    {i \in 1..Len(kernel_log) :
        kernel_log[i].op \in {"makeCone", "cylinder", "revolve"} /\ kernel_log[i].hole >= 0}

(* the revolves of a profile *)
ProfileRevolves ==
    {i \in Requests("revolve") : kernel_log[i].hole = -1}

(* C11: when a part with zero holes (declared 0, or the hole fields absent) *)
(* is assembled by the navegador or by lee_json and the kernel answers      *)
(* every request, the run succeeds, builds no cutter, and requests exactly  *)
(* one subtraction, external - internal, which is its result.               *)
C11_ZeroHolesBodyOnly ==
    (/\ outcome.app \in {"navegador", "lee_json"}
     /\ BothProfiles
     /\ NumberOfHoles(internal_data) = 0
     /\ Rejected(kernel_log) = {})
        => /\ outcome.kind = "success"
           /\ Cutters = {}
           /\ \E c \in Requests("cut") :
                /\ Requests("cut") = {c}
                /\ kernel_log[c].hole = -1
                /\ \A j \in (c + 1)..Len(kernel_log) : kernel_log[j].op = "export"

(* the polyline of a profile path closed onto the axis: a vertex of radius  *)
(* 0 at the first point's position before it when its radius is not 0, one  *)
(* at the last point's position after it when its radius is not 0, and the  *)
(* path's own vertices in between                                           *)
ClosedOntoAxis(path) ==
    (IF path[1][1] # Rat(0) THEN <<<<Rat(0), path[1][2]>>>> ELSE <<>>)
        \o path
        \o (IF path[Len(path)][1] # Rat(0) THEN <<<<Rat(0), path[Len(path)][2]>>>> ELSE <<>>)

(* C12: every polyline a revolution builder hands to the kernel's revolve   *)
(* starts and ends at radius 0 and is the profile's (radius, position)      *)
(* path closed onto the axis, with no other vertex added, removed or        *)
(* changed.                                                                 *)
C12_PolylineClosedOntoAxis ==
    \A i \in ProfileRevolves :
        LET poly == kernel_log[i].poly
        IN  poly # <<>> =>
                /\ poly[1][1] = Rat(0)
                /\ poly[Len(poly)][1] = Rat(0)
                /\ \E ms \in {external_data.measurements, internal_data.measurements} :
                       ms # <<>> /\ poly = ClosedOntoAxis(Profile2d(heap, ms))

-----------------------------------------------------------------------------
(* The geometry of a placed cutter.  The body is revolved about the world   *)
(* Z axis (cadquery: the local Y axis of the XZ workplane; trimesh: Z), so  *)
(* z is the axial coordinate and the distance from the axis is taken in the *)
(* x-y plane.                                                               *)

(* the two ends of the template before it is placed, [r, z]: the radius and *)
(* the local z of the end's centre.  makeCone(r1, r2, h) has r1 at z = 0    *)
(* and r2 at z = h; trimesh's cylinder is centred on the origin; the        *)
(* revolved template has its second vertex at (d_outer/2, -h/2) and its     *)
(* third at (d_inner/2, h/2).                                               *)
Ends(e) ==
    IF e.op = "makeCone"
    THEN <<[r |-> e.cone[1], z |-> Rat(0)], [r |-> e.cone[2], z |-> e.cone[3]]>>
    ELSE IF e.op = "cylinder"
    THEN <<[r |-> e.cone[1], z |-> RNeg(RDiv(e.cone[3], Rat(2)))],
           [r |-> e.cone[2], z |-> RDiv(e.cone[3], Rat(2))]>>
    ELSE <<[r |-> e.template[2][1], z |-> e.template[2][2]],
           [r |-> e.template[3][1], z |-> e.template[3][2]]>>

(* a right-handed quarter turn about the X or the Y axis *)
RotMm(axis, quarter, v) ==
    IF axis = "Y"
    THEN (IF quarter = 1 THEN <<v[3], v[2], RNeg(v[1])>> ELSE <<RNeg(v[3]), v[2], v[1]>>)
    ELSE (IF quarter = 1 THEN <<v[1], RNeg(v[3]), v[2]>> ELSE <<v[1], v[3], RNeg(v[2])>>)
RotPos(axis, quarter, v) ==
    IF axis = "Y"
    THEN (IF quarter = 1 THEN <<v[3], v[2], -v[1]>> ELSE <<-v[3], v[2], v[1]>>)
    ELSE (IF quarter = 1 THEN <<v[1], -v[3], v[2]>> ELSE <<v[1], v[3], -v[2]>>)

(* a point after the transforms steps[k], steps[k + 1], ... in turn *)
RECURSIVE Apply(_, _, _)
Apply(steps, pt, k) ==
    IF k > Len(steps) THEN pt
    ELSE LET t == steps[k]
             moved == IF t.kind = "translate"
                      THEN [mm |-> [j \in 1..3 |-> RAdd(pt.mm[j], t.mm[j])],
                            pos |-> [j \in 1..3 |-> pt.pos[j] + t.pos[j]]]
                      ELSE [mm |-> RotMm(t.axis, t.quarter, pt.mm),
                            pos |-> RotPos(t.axis, t.quarter, pt.pos)]
         IN  Apply(steps, moved, k + 1)

(* the centre of end j (1, 2) of the cutter e as placed *)
PlacedEnd(e, j) ==
    Apply(e.place, [mm |-> <<Rat(0), Rat(0), Ends(e)[j].z>>, pos |-> ZeroPos], 1)

(* the body radii at hole k (0-based) as the programs interpolate them *)
RExt(k) ==
    IF outcome.app = "generar"
    THEN interpolate_radius_generar(internal_data.holes_position[k + 1], ExternalProfile).value
    ELSE interpolate_radius(internal_data.holes_position[k + 1], ExternalProfile).value
RInt(k) ==
    IF outcome.app = "generar"
    THEN interpolate_radius_generar(internal_data.holes_position[k + 1], InternalProfile).value
    ELSE interpolate_radius(internal_data.holes_position[k + 1], InternalProfile).value

(* the height of the cutter e over the wall at its hole *)
Margin(e) ==
    RSub(RSub(Ends(e)[2].z, Ends(e)[1].z), RSub(RExt(e.hole), RInt(e.hole)))

(* C13: every cutter the navegador or lee_json places is centred in the     *)
(* wall: both end centres are at the hole's axial position, their midpoint  *)
(* is at x = (r_ext + r_int) / 2 on the radial line y = 0, the height is    *)
(* wall_thickness + margin for one margin between 2 and 6 mm, and the ends  *)
(* are at r_int - margin/2 and r_ext + margin/2.                            *)
C13_CutterCentredInWall ==
    outcome.app \in {"navegador", "lee_json"} =>
        \A i \in Cutters :
            LET e == kernel_log[i]
                k == e.hole
                c1 == PlacedEnd(e, 1)
                c2 == PlacedEnd(e, 2)
                half == RDiv(Margin(e), Rat(2))
            IN  /\ c1.pos = <<0, 0, internal_data.holes_position[k + 1]>>
                /\ c2.pos = c1.pos
                /\ c1.mm[3] = Rat(0) /\ c2.mm[3] = Rat(0)
                /\ c1.mm[2] = Rat(0) /\ c2.mm[2] = Rat(0)
                /\ RDiv(RAdd(c1.mm[1], c2.mm[1]), Rat(2)) = RDiv(RAdd(RExt(k), RInt(k)), Rat(2))
                /\ RLeq(Rat(2), Margin(e)) /\ RLeq(Margin(e), Rat(6))
                /\ \A j \in Cutters : Margin(kernel_log[j]) = Margin(e)
                /\ {c1.mm[1], c2.mm[1]} = {RSub(RInt(k), half), RAdd(RExt(k), half)}

(* the wall at hole k and the difference of the cutter's two end radii *)
Wall(k) == RSub(RExt(k), RInt(k))
Offset(e) == RSub(Ends(e)[2].r, Ends(e)[1].r)

(* C14: every cutter the visualizador or generar_piezas builds has the end  *)
(* radii outer_radius = hole diameter / 2 and inner_radius = outer_radius + *)
(* wall_thickness * tan(conicity angle) for the one angle of the run: the   *)
(* angle given where the program takes one, and in any case an offset       *)
(* proportional to the wall, 0 where the wall is 0; with the angle 0 the    *)
(* two radii are equal.                                                     *)
C14_CutterRadii ==
    outcome.app \in {"visualizador", "generar"} =>
        \A i \in Cutters :
            LET e == kernel_log[i]
            IN  /\ Ends(e)[1].r = Norm(internal_data.holes_diameter[e.hole + 1], 2)
                /\ outcome.app = "visualizador"
                      => /\ Ends(e)[2].r = RAdd(Ends(e)[1].r, RMul(Wall(e.hole), outcome.tan))
                         /\ outcome.tan = Rat(0) => Ends(e)[2].r = Ends(e)[1].r
                /\ Wall(e.hole) = Rat(0) => Offset(e) = Rat(0)
                /\ \A j \in Cutters :
                       RMul(Offset(e), Wall(kernel_log[j].hole))
                           = RMul(Offset(kernel_log[j]), Wall(e.hole))

(* C15: in every run of the navegador or the visualizador the subtractions  *)
(* come after both revolves; the first is external - internal; cutter k is  *)
(* subtracted from the result of the subtraction before it (the body        *)
(* subtraction for cutter 0, that of cutter k - 1 otherwise), in hole-list  *)
(* order; so no cutter is subtracted from the un-hollowed external solid    *)
(* nor before the body subtraction.                                         *)
C15_BodyFirstThenCuttersInOrder ==
    outcome.app \in {"navegador", "visualizador"} =>
        \A c \in Requests("cut") :
            LET e == kernel_log[c]
            IN  /\ \A r \in ProfileRevolves : r < c
                /\ e.hole = -1 =>
                      /\ e.a = 1 /\ e.b = 2
                      /\ ProfileRevolves = {1, 2}
                      /\ \A d \in Requests("cut") : d >= c
                /\ e.hole >= 0 =>
                      /\ e.a \in Requests("cut")
                      /\ e.a < c
                      /\ kernel_log[e.a].hole = e.hole - 1
                      /\ \A d \in Requests("cut") : ~(e.a < d /\ d < c)
                      /\ e.b \in Cutters
                      /\ kernel_log[e.b].hole = e.hole

C15_Witness ==
    /\ outcome.app \in {"navegador", "visualizador"}
    /\ outcome.kind = "success"
    /\ Cardinality(Requests("cut")) = 3
    /\ \E c \in Requests("cut") : kernel_log[c].hole = 1 /\ kernel_log[kernel_log[c].a].hole = 0

(* an input error of the part record: a missing 'measurements' field, or a  *)
(* hole list shorter than 'Number of holes'                                 *)
InputError ==
    \/ "measurements" \notin external_data.keys
    \/ "measurements" \notin internal_data.keys
    \/ /\ "Holes position" \in internal_data.keys
       /\ Len(internal_data.holes_position) < NumberOfHoles(internal_data)
    \/ /\ "Holes diameter" \in internal_data.keys
       /\ Len(internal_data.holes_diameter) < NumberOfHoles(internal_data)

(* C16: when the navegador or the visualizador is given a part record with  *)
(* an input error, the run ends in an error and no revolve, no subtraction  *)
(* and no cutter was requested from the kernel before it.                   *)
C16_InputErrorBeforeAssembly ==
    (outcome.app \in {"navegador", "visualizador"} /\ InputError)
        => /\ outcome.kind \in {"message", "raised"}
           /\ kernel_log = <<>>

(* C17: a run that the kernel answers throughout builds exactly one cutter  *)
(* per declared hole, cutter k for hole k, and two cutters of holes with    *)
(* the same position and diameter have the same radii, height and           *)
(* placement.                                                               *)
C17_OneCutterPerHole ==
    (/\ outcome.app \in {"navegador", "generar", "lee_json"}
     /\ outcome.kind = "success")
        => /\ Cardinality(Cutters) = NumberOfHoles(internal_data)
           /\ {kernel_log[i].hole : i \in Cutters} = 0..(NumberOfHoles(internal_data) - 1)
           /\ \A i \in Cutters, j \in Cutters :
                (/\ internal_data.holes_position[kernel_log[i].hole + 1]
                      = internal_data.holes_position[kernel_log[j].hole + 1]
                 /\ internal_data.holes_diameter[kernel_log[i].hole + 1]
                      = internal_data.holes_diameter[kernel_log[j].hole + 1])
                    => /\ kernel_log[i].cone = kernel_log[j].cone
                       /\ kernel_log[i].template = kernel_log[j].template
                       /\ kernel_log[i].place = kernel_log[j].place

-----------------------------------------------------------------------------
(* More claims about the interpolators, under SpecInterpolator *)

(* the indices of the adjacent pairs that bracket y *)
Bracketing(y, pts) ==
    {i \in 1..(Len(pts) - 1) : pts[i].position <= y /\ y <= pts[i + 1].position}
Lowest(S) == CHOOSE i \in S : \A j \in S : i <= j

(* C18: on any profile, when some adjacent pair brackets y the call returns *)
(* a value (it never divides by zero) computed from the bracketing pair of  *)
(* the lowest index: r1 when that pair has y1 = y2, r1 or the line through  *)
(* that pair at y otherwise.                                                *)
C18_FirstBracketingPair ==
    (Called /\ Bracketing(y_pos, Profile) # {}) =>
        LET p1 == Profile[Lowest(Bracketing(y_pos, Profile))]
            p2 == Profile[Lowest(Bracketing(y_pos, Profile)) + 1]
        IN  /\ ret.kind = "return"
            /\ p1.position = p2.position => ret.value = Radius(p1)
            /\ p1.position # p2.position => ret.value \in {Radius(p1), Lerp(y_pos, p1, p2)}

C18_Witness ==
    /\ Called
    /\ Cardinality(Bracketing(y_pos, Profile)) >= 2
    /\ LET i == Lowest(Bracketing(y_pos, Profile))
       IN  /\ Profile[i].position = Profile[i + 1].position
           /\ Radius(Profile[i]) # Radius(Profile[i + 1])
           /\ ret = Returned(Radius(Profile[i]))

Radii(pts) == {Radius(pts[i]) : i \in 1..Len(pts)}
Between(x, a, b) == (RLeq(a, x) /\ RLeq(x, b)) \/ (RLeq(b, x) /\ RLeq(x, a))

(* C20 as stated: on every non-empty profile with diameters >= 0 and for    *)
(* every y the returned value lies between the smallest and the largest     *)
(* radius of the profile, and between the radii of the bracketing pair      *)
(* when one is used; it is never negative.                                  *)
C20_WithinRadii ==
    (Called /\ Len(Profile) >= 1) =>
        /\ ret.kind = "return"
        /\ RLeq(Rat(0), ret.value)
        /\ \E lo \in Radii(Profile), hi \in Radii(Profile) :
               RLeq(lo, ret.value) /\ RLeq(ret.value, hi)
        /\ Bracketing(y_pos, Profile) # {} =>
               LET i == Lowest(Bracketing(y_pos, Profile))
               IN  Between(ret.value, Radius(Profile[i]), Radius(Profile[i + 1]))

(* C20 amended: on every non-empty profile with diameters >= 0 and for      *)
(* every y the call returns a value that is never negative; it is exactly   *)
(* a radius of the profile when no pair brackets y or the bracketing pair   *)
(* of the lowest index has y1 = y2.                                         *)
C20_NeverNegative ==
    (Called /\ Len(Profile) >= 1) =>
        /\ ret.kind = "return"
        /\ RLeq(Rat(0), ret.value)
        /\ (\/ Bracketing(y_pos, Profile) = {}
            \/ LET i == Lowest(Bracketing(y_pos, Profile))
               IN  Profile[i].position = Profile[i + 1].position)
              => ret.value \in Radii(Profile)

(* a call that interpolates on a pair with y1 < y2 and whose rounded value  *)
(* leaves the range of the pair's radii without becoming negative           *)
C20_Witness ==
    /\ Called
    /\ Bracketing(y_pos, Profile) # {}
    /\ LET i == Lowest(Bracketing(y_pos, Profile))
       IN  /\ Profile[i].position < Profile[i + 1].position
           /\ ret.kind = "return"
           /\ RLeq(Rat(0), ret.value)
           /\ ~Between(ret.value, Radius(Profile[i]), Radius(Profile[i + 1]))

-----------------------------------------------------------------------------
(* The orientation of a placed cutter, under Spec *)

(* two placed points that differ only in their x millimetres: their         *)
(* distances from the Z axis are ordered as the squares of x                *)
SameXLine(a, b) == a.pos = b.pos /\ a.pos[1] = 0 /\ a.mm[2] = b.mm[2]
NearerAxis(a, b) == RLess(RMul(a.mm[1], a.mm[1]), RMul(b.mm[1], b.mm[1]))

(* the cutters of a run of the navegador or of generar_piezas *)
ConeCutters ==
    IF outcome.app \in {"navegador", "generar"} THEN Cutters ELSE {}

(* C19 as stated: of every cutter the navegador or generar_piezas places,   *)
(* the end of radius hole diameter / 2 is nearer the revolution axis than   *)
(* the end whose radius is offset.                                          *)
C19_OuterRadiusAtBore ==
    \A i \in ConeCutters :
        NearerAxis(PlacedEnd(kernel_log[i], 1), PlacedEnd(kernel_log[i], 2))

(* C19 amended: every cutter the navegador or generar_piezas places is      *)
(* rotated first and translated last, and when its height is positive and   *)
(* the mid-wall radius (r_ext + r_int) / 2 is positive its two end centres  *)
(* lie on one line parallel to x, the end of radius hole diameter / 2 at    *)
(* x_target + height / 2, farther from the revolution axis, and the end     *)
(* whose radius is offset at x_target - height / 2, nearer the axis.        *)
C19_OuterRadiusAtExterior ==
    \A i \in ConeCutters :
        LET e == kernel_log[i]
            c1 == PlacedEnd(e, 1)
            c2 == PlacedEnd(e, 2)
            height == RSub(Ends(e)[2].z, Ends(e)[1].z)
            x_target == RDiv(RAdd(RExt(e.hole), RInt(e.hole)), Rat(2))
        IN  /\ Ends(e)[1].r = Norm(internal_data.holes_diameter[e.hole + 1], 2)
            /\ e.place[Len(e.place)].kind = "translate"
            /\ e.place[Len(e.place) - 1].kind = "rotate"
            /\ SameXLine(c1, c2)
            /\ c1.mm[1] = RAdd(x_target, RDiv(height, Rat(2)))
            /\ c2.mm[1] = RSub(x_target, RDiv(height, Rat(2)))
            /\ (RLess(Rat(0), height) /\ RLess(Rat(0), x_target)) => NearerAxis(c2, c1)

(* a run of the navegador that placed the cutters of two holes, each a      *)
(* frustum of positive height with its wider end nearer the axis            *)
C19_Witness ==
    /\ outcome.app = "navegador"
    /\ Cardinality(ConeCutters) >= 2
    /\ \A i \in ConeCutters :
           /\ RLess(Ends(kernel_log[i])[1].r, Ends(kernel_log[i])[2].r)
           /\ RLess(Ends(kernel_log[i])[1].z, Ends(kernel_log[i])[2].z)
           /\ NearerAxis(PlacedEnd(kernel_log[i], 2), PlacedEnd(kernel_log[i], 1))

-----------------------------------------------------------------------------
(* The file corrector, navegador_flautas.py 19-62.                          *)
(* A flute directory is a function from the file names it holds to the      *)
(* files they name; a file is identified by the name it had when the scan   *)
(* was called.  A name is a string; Spelling gives its characters.          *)

(* FileCorrector.CORRECT_NAMES, in list order *)
CORRECT_NAMES ==
    <<"headjoint.json", "headjoint_external.json", "left.json", "left_external.json",
      "right.json", "right_external.json", "foot.json", "foot_external.json">>
CorrectNames == {CORRECT_NAMES[i] : i \in 1..Len(CORRECT_NAMES)}

(* the flute directories under base_path and the file names they may hold:  *)
(* a correct name, names that differ from it by one character, a .json      *)
(* name far from every correct name, and a file that is not .json           *)
FluteDirs == {"flute_a", "flute_b"}
FileNames == {"left.json", "left2.json", "lefft.json", "notes.json", "left.txt"}

Spelling ==
    ("headjoint.json" :> <<"h", "e", "a", "d", "j", "o", "i", "n", "t", ".", "j", "s", "o", "n">>) @@
    ("headjoint_external.json" :> <<"h", "e", "a", "d", "j", "o", "i", "n", "t", "_", "e", "x", "t", "e", "r", "n", "a", "l", ".", "j", "s", "o", "n">>) @@
    ("left.json" :> <<"l", "e", "f", "t", ".", "j", "s", "o", "n">>) @@
    ("left_external.json" :> <<"l", "e", "f", "t", "_", "e", "x", "t", "e", "r", "n", "a", "l", ".", "j", "s", "o", "n">>) @@
    ("right.json" :> <<"r", "i", "g", "h", "t", ".", "j", "s", "o", "n">>) @@
    ("right_external.json" :> <<"r", "i", "g", "h", "t", "_", "e", "x", "t", "e", "r", "n", "a", "l", ".", "j", "s", "o", "n">>) @@
    ("foot.json" :> <<"f", "o", "o", "t", ".", "j", "s", "o", "n">>) @@
    ("foot_external.json" :> <<"f", "o", "o", "t", "_", "e", "x", "t", "e", "r", "n", "a", "l", ".", "j", "s", "o", "n">>) @@
    ("left2.json" :> <<"l", "e", "f", "t", "2", ".", "j", "s", "o", "n">>) @@
    ("lefft.json" :> <<"l", "e", "f", "f", "t", ".", "j", "s", "o", "n">>) @@
    ("notes.json" :> <<"n", "o", "t", "e", "s", ".", "j", "s", "o", "n">>) @@
    ("left.txt" :> <<"l", "e", "f", "t", ".", "t", "x", "t">>)

(* the characters of the names in code point order, and Python's order on   *)
(* strings                                                                  *)
CodeOrder == <<".", "2", "_", "a", "d", "e", "f", "g", "h", "i", "j", "l", "n", "o", "r", "s", "t", "x">>
Ord(c) == CHOOSE k \in 1..Len(CodeOrder) : CodeOrder[k] = c
RECURSIVE StrLess(_, _, _)
StrLess(a, b, k) ==
    IF k > Len(b) THEN FALSE
    ELSE IF k > Len(a) THEN TRUE
    ELSE IF a[k] # b[k] THEN Ord(a[k]) < Ord(b[k])
    ELSE StrLess(a, b, k + 1)

(* filename.endswith(".json") *)
EndsWithJson(name) ==
    LET w == Spelling[name]
    IN  Len(w) >= 5 /\ SubSeq(w, Len(w) - 4, Len(w)) = <<".", "j", "s", "o", "n">>

(* difflib.SequenceMatcher without junk (autojunk needs 200 elements).      *)
(* Ranges are a[alo..ahi-1], b[blo..bhi-1].                                 *)
RECURSIVE RunLength(_, _, _, _, _, _)
RunLength(a, b, i, j, ahi, bhi) ==
    IF i >= ahi \/ j >= bhi THEN 0
    ELSE IF a[i] # b[j] THEN 0
    ELSE 1 + RunLength(a, b, i + 1, j + 1, ahi, bhi)

(* find_longest_match: <<i, j, k>> with a[i..i+k-1] = b[j..j+k-1], k the     *)
(* largest, then i the smallest, then j the smallest; <<alo, blo, 0>> when  *)
(* nothing matches                                                          *)
find_longest_match(a, b, alo, ahi, blo, bhi) ==
    LET blocks == {<<i, j, RunLength(a, b, i, j, ahi, bhi)>> :
                       i \in alo..(ahi - 1), j \in blo..(bhi - 1)}
        found == {m \in blocks : m[3] > 0}
        Better(m, n) == \/ m[3] > n[3]
                        \/ m[3] = n[3] /\ m[1] < n[1]
                        \/ m[3] = n[3] /\ m[1] = n[1] /\ m[2] <= n[2]
    IN  IF found = {} THEN <<alo, blo, 0>>
        ELSE CHOOSE m \in found : \A n \in found : Better(m, n)

(* get_matching_blocks: the total size of the blocks, found by taking the   *)
(* longest match and then matching to its left and to its right             *)
RECURSIVE Matches(_, _, _, _, _, _)
Matches(a, b, alo, ahi, blo, bhi) ==
    LET m == find_longest_match(a, b, alo, ahi, blo, bhi)
    IN  IF m[3] = 0 THEN 0
        ELSE m[3] + Matches(a, b, alo, m[1], blo, m[2])
                  + Matches(a, b, m[1] + m[3], ahi, m[2] + m[3], bhi)

(* ratio() = 2.0 * matches / (len(a) + len(b)), 1.0 for two empty strings,  *)
(* as the fraction <<numerator, denominator>>                               *)
ratio(a, b) ==
    IF Len(a) + Len(b) = 0 THEN <<1, 1>>
    ELSE <<2 * Matches(a, b, 1, Len(a) + 1, 1, Len(b) + 1), Len(a) + Len(b)>>

(* cutoff=0.8 *)
Cutoff == <<4, 5>>
FracLeq(p, q) == p[1] * q[2] <= q[1] * p[2]

None == "None"

(* difflib.get_close_matches(word, possibilities, n=1, cutoff=0.8): seq1 is *)
(* the possibility, seq2 the word; of the possibilities with ratio >=       *)
(* cutoff the largest pair (ratio, name); None for no match                 *)
get_close_matches(word, possibilities) ==
    LET Score(x) == ratio(Spelling[x], Spelling[word])
        close == {possibilities[i] : i \in 1..Len(possibilities)}
        result == {x \in close : FracLeq(Cutoff, Score(x))}
        Largest(x, y) == \/ ~FracLeq(Score(x), Score(y))
                         \/ FracLeq(Score(y), Score(x)) /\ ~StrLess(Spelling[x], Spelling[y], 1)
    IN  IF result = {} THEN None
        ELSE CHOOSE x \in result : \A y \in result : Largest(x, y)

(* FileCorrector.find_closest_match, for every name of the model *)
find_closest_match == [typo \in FileNames |-> get_close_matches(typo, CORRECT_NAMES)]

(* The file system.  os.rename(old, new) onto an existing file: POSIX       *)
(* replaces the file silently, Windows raises FileExistsError.              *)
FileNotFoundError == "FileNotFoundError"
FileExistsError == "FileExistsError"

(* os.rename(old_path, new_path) in one directory *)
os_rename(files, old, new, posix) ==
    IF old \notin DOMAIN files THEN [files |-> files, error |-> FileNotFoundError]
    ELSE IF new \in DOMAIN files /\ ~posix THEN [files |-> files, error |-> FileExistsError]
    ELSE [files |-> [n \in (DOMAIN files \ {old}) \cup {new} |->
                        IF n = new THEN files[old] ELSE files[n]],
          error |-> ""]

(* the orders in which os.listdir or os.scandir may give the entries S *)
Orders(S) ==
    {o \in [1..Cardinality(S) -> S] : \A i, j \in 1..Cardinality(S) : o[i] = o[j] => i = j}

(* one entry of corrections_log *)
LogMsg(filename, correct_name, flute_dir) ==
    [filename |-> filename, correct_name |-> correct_name, flute_dir |-> flute_dir]

(* lines 50-60: the loop over os.listdir(flute_dir), from entry k of the    *)
(* listing taken before the first rename; an exception of os.rename ends it *)
RECURSIVE ScanDir(_, _, _, _, _, _)
ScanDir(files, listing, k, posix, log, flute_dir) ==
    IF k > Len(listing) THEN [files |-> files, log |-> log, error |-> ""]
    ELSE LET filename == listing[k]
             correct_name == find_closest_match[filename]
         IN  IF EndsWithJson(filename) /\ filename \notin CorrectNames /\ correct_name # None
             THEN LET r == os_rename(files, filename, correct_name, posix)
                  IN  IF r.error # ""
                      THEN [files |-> r.files, log |-> log, error |-> r.error]
                      ELSE ScanDir(r.files, listing, k + 1, posix,
                                   Append(log, LogMsg(filename, correct_name, flute_dir)),
                                   flute_dir)
             ELSE ScanDir(files, listing, k + 1, posix, log, flute_dir)

(* lines 48-62: the loop over flute_dirs, from directory k *)
RECURSIVE ScanDirs(_, _, _, _, _, _)
ScanDirs(d, flute_dirs, listings, k, posix, log) ==
    IF k > Len(flute_dirs) THEN [disk |-> d, log |-> log, error |-> ""]
    ELSE LET flute_dir == flute_dirs[k]
             r == ScanDir(d[flute_dir], listings[flute_dir], 1, posix, log, flute_dir)
             after == [d EXCEPT ![flute_dir] = r.files]
         IN  IF r.error # ""
             THEN [disk |-> after, log |-> r.log, error |-> r.error]
             ELSE ScanDirs(after, flute_dirs, listings, k + 1, posix, r.log)

(* a listing order for each directory of D *)
RECURSIVE Listings(_, _)
Listings(d, D) ==
    IF D = {} THEN {<<>>}
    ELSE LET flute_dir == CHOOSE x \in D : TRUE
         IN  {(flute_dir :> o) @@ l : o \in Orders(DOMAIN d[flute_dir]),
                                      l \in Listings(d, D \ {flute_dir})}

(* a directory as it is before the scan: each name names its own file *)
Directory(S) == [n \in S |-> n]

(* base_path holds any of the flute directories, each with any of the files *)
InitCorrector ==
    /\ \E D \in SUBSET FluteDirs :
       \E d \in [D -> {Directory(S) : S \in SUBSET FileNames}] :
        /\ disk = d
        /\ disk_before = d
    /\ corrections_log = <<>>
    /\ scan = NoScan
    /\ heap = <<>>
    /\ before = <<>>
    /\ external_data = NoPart
    /\ IdleSanitizer
    /\ IdleInterpolator
    /\ IdleAssembly

(* FluteAssemblerApp.scan_and_load_flutes, lines 208-209: a new             *)
(* FileCorrector and its scan_and_correct(), on either kind of platform and *)
(* with the entries in any order                                            *)
ScanAndCorrect ==
    /\ scan = NoScan
    /\ \E posix \in BOOLEAN, flute_dirs \in Orders(DOMAIN disk) :
       \E listings \in Listings(disk, DOMAIN disk) :
       \E r \in {ScanDirs(disk, flute_dirs, listings, 1, posix, <<>>)} :
        /\ disk' = r.disk
        /\ corrections_log' = r.log
        /\ scan' = [kind |-> IF r.error = "" THEN "returned" ELSE "raised",
                    error |-> r.error]
    /\ UNCHANGED <<heap, external_data, internal_data, new_measurements, before, first,
                   runs, y_pos, ret, kernel_log, outcome, final_cq_solid, disk_before>>

NextCorrector == ScanAndCorrect

SpecCorrector == InitCorrector /\ [][NextCorrector]_vars

-----------------------------------------------------------------------------
(* Claims about the file corrector, under SpecCorrector *)

Scanned == scan.kind # "none"
JsonNames(files) == {n \in DOMAIN files : EndsWithJson(n)}
Files(files) == {files[n] : n \in DOMAIN files}

(* what the files of the directories are before and after a scan: the       *)
(* directories are the same, and a file that is not .json is left alone     *)
CorrectorFacts ==
    Scanned =>
        /\ DOMAIN disk = DOMAIN disk_before
        /\ \A d \in DOMAIN disk :
               /\ Files(disk[d]) \subseteq Files(disk_before[d])
               /\ \A n \in DOMAIN disk_before[d] :
                      ~EndsWithJson(n) => n \in DOMAIN disk[d] /\ disk[d][n] = n
        /\ scan.kind = "raised" => scan.error = FileExistsError

(* C21: after scan_and_correct, in every flute directory the number of      *)
(* .json files equals the number before the scan, a file that carried a     *)
(* correct name still carries it, and every file of the directory is still  *)
(* there (no file was renamed onto another).                                *)
C21_NeverDestroysAFile ==
    Scanned =>
        \A d \in DOMAIN disk :
            /\ Cardinality(JsonNames(disk[d])) = Cardinality(JsonNames(disk_before[d]))
            /\ \A n \in DOMAIN disk_before[d] \cap CorrectNames :
                   n \in DOMAIN disk[d] /\ disk[d][n] = n
            /\ Files(disk[d]) = Files(disk_before[d])

====
